---- MODULE Spec2Model ----
(***************************************************************************)
(* Model of pygnverifier: the verification request, the verification       *)
(* client, the response model and the data source catalog.                 *)
(*                                                                         *)
(* JSON objects are functions from keys to values; a key is present iff it *)
(* is in the DOMAIN.  JSON lists are sequences.  Floats are integers in    *)
(* tenths (0.6 is 6).  The three classification strings are kept as        *)
(* [str |-> <<chunks>>], a Python str given as its sequence of chunks,     *)
(* where "|" is a chunk of its own, so that splitting can be computed.     *)
(***************************************************************************)
EXTENDS Integers, Sequences, FiniteSets, TLC

VARIABLES
    data,           \* JSON body handed to GNVerifierResponse
    response,       \* the GNVerifierResponse built from data
    exported,       \* what export_as_json serialises
    request,        \* the VerificationRequest
    wire,           \* the body to_dict renders for the request
    net,            \* outcome of the network call of the last operation
    result,         \* what the last client call gave its caller
    catalog,        \* data sources held by the request configuration
    selected,       \* data source IDs selected in the configuration
    lastInclude,    \* outcome of the last include_data_source call
    options,        \* flags and threshold accumulated in the configuration
    lastCall,       \* outcome of the last option mutator call
    files,          \* files written by the command-line front end
    clock,          \* time(), in tenths of a second
    metadata,       \* the local metadata.json, shared by every process
    cache,          \* the cache files of _get and _post, by cache path
    pc,             \* where each process stands in its call
    call,           \* the current or last _get/_post call of each process
    issues,         \* the times at which requests went to the network
    started,        \* number of calls begun
    overlapped      \* a call began while another process was inside one

vars == <<data, response, exported, request, wire, net, result,
          catalog, selected, lastInclude, options, lastCall, files,
          clock, metadata, cache, pc, call, issues, started, overlapped>>

parseVars == <<data, response, exported>>
requestVars == <<request, wire>>
clientVars == <<net, result>>
builderVars == <<catalog, selected, lastInclude, options, lastCall>>
cliVars == <<files>>
apiVars == <<clock, metadata, cache, pc, call, issues, started, overlapped>>

\* ---------------------------------------------------------------- bounds
MaxNames == 1        \* entries of a generated "names" list with match records
MaxBodyNames == 2    \* entries of a generated "names" list without match records
MaxResults == 2      \* entries of a generated "results" list
MaxSegments == 2     \* segments of a generated classification string
MaxRecords == 2      \* records of a generated catalog reply
MaxSources == 2      \* entries of the catalog held by a configuration
MaxExtLen == 4       \* atoms after the stem of a generated output path
MaxCalls == 2        \* calls of _get and _post in one run
MaxElapsed == 8      \* tenths of a second that pass in small steps

\* ------------------------------------------------------------ JSON helpers
None == [has |-> FALSE]
Some(v) == [has |-> TRUE, v |-> v]

EmptyMap == <<>>

\* dict.get(k, default)
Get(d, k, default) == IF k \in DOMAIN d THEN d[k] ELSE default

\* the key sets of the generated objects: none, all, one, all but one
KeyFamilies(K) == {{}, K} \cup {{k} : k \in K} \cup {K \ {k} : k \in K}

\* l with x put in at position i
InsertAt(l, i, x) == SubSeq(l, 1, i - 1) \o <<x>> \o SubSeq(l, i, Len(l))

\* the lists of L with one element of X put in at some position
WithOne(L, X) ==
    UNION {{InsertAt(l, i, x) : i \in 1..(Len(l) + 1), x \in X} : l \in L}

NA == "N/A"
Str(chunks) == [str |-> chunks]
NAstr == Str(<<"N/A">>)

\* str.split("|") on a chunk sequence: the list of segments
RECURSIVE Split(_)
Split(s) ==
    IF s = <<>> THEN << <<>> >>
    ELSE LET rest == Split(Tail(s))
         IN  IF Head(s) = "|" THEN << <<>> >> \o rest
             ELSE << <<Head(s)>> \o Head(rest) >> \o Tail(rest)

\* "|".join of single-chunk segments
RECURSIVE Join(_)
Join(segs) ==
    IF segs = <<>> THEN <<>>
    ELSE IF Len(segs) = 1 THEN <<segs[1]>>
    ELSE <<segs[1], "|">> \o Join(Tail(segs))

\* ---------------------------------------------------------- Metadata
MetadataKeys ==
    {"namesNumber", "withStats", "dataSources", "mainTaxonThreshold",
     "statsNamesNum", "mainTaxon", "mainTaxonPercentage", "kingdom",
     "kingdomPercentage", "kingdoms"}

Metadata_wrong_key(d) ==
    [names_number          |-> Get(d, "namesNumber", 0),
     with_stats            |-> Get(d, "withStats", FALSE),
     data_sources          |-> Get(d, "dataSources", <<>>),
     main_taxon_threshold  |-> Get(d, "mainTaxonThreshold", 0),
     stats_names_num       |-> Get(d, "namesNumber", 0),
     main_taxon            |-> Get(d, "mainTaxon", NA),
     main_taxon_percentage |-> Get(d, "mainTaxonPercentage", 0),
     kingdom               |-> Get(d, "kingdom", NA),
     kingdom_percentage    |-> Get(d, "kingdomPercentage", 0),
     kingdoms              |-> Get(d, "kingdoms", <<>>)]

Metadata(d) ==
    [names_number          |-> Get(d, "namesNumber", 0),
     with_stats            |-> Get(d, "withStats", FALSE),
     data_sources          |-> Get(d, "dataSources", <<>>),
     main_taxon_threshold  |-> Get(d, "mainTaxonThreshold", 0),
     stats_names_num       |-> Get(d, "statsNamesNum", 0),
     main_taxon            |-> Get(d, "mainTaxon", NA),
     main_taxon_percentage |-> Get(d, "mainTaxonPercentage", 0),
     kingdom               |-> Get(d, "kingdom", NA),
     kingdom_percentage    |-> Get(d, "kingdomPercentage", 0),
     kingdoms              |-> Get(d, "kingdoms", <<>>)]

Metadata_to_dict(m) ==
    [namesNumber         |-> m.names_number,
     withStats           |-> m.with_stats,
     dataSources         |-> m.data_sources,
     mainTaxonThreshold  |-> m.main_taxon_threshold,
     statsNamesNum       |-> m.stats_names_num,
     mainTaxon           |-> m.main_taxon,
     mainTaxonPercentage |-> m.main_taxon_percentage,
     kingdom             |-> m.kingdom,
     kingdomPercentage   |-> m.kingdom_percentage,
     kingdoms            |-> m.kingdoms]

\* ---------------------------------------------------------- NameResult
BestResultKeys ==
    {"dataSourceId", "dataSourceTitleShort", "curation", "recordId",
     "outlink", "entryDate", "sortScore", "matchedNameID", "matchedName",
     "matchedCardinality", "matchedCanonicalSimple", "matchedCanonicalFull",
     "currentRecordId", "currentNameId", "currentName", "currentCardinality",
     "currentCanonicalSimple", "currentCanonicalFull", "taxonomicStatus",
     "isSynonym", "classificationPath", "classificationRanks",
     "classificationIds", "editDistance", "stemEditDistance", "matchType",
     "scoreDetails"}

NameScalarKeys == {"name", "cardinality", "matchType"}

NameResult(d) ==
    LET best_result == Get(d, "bestResult", EmptyMap)
    IN  [input_name               |-> Get(d, "name", NA),
         cardinality              |-> Get(d, "cardinality", 0),
         match_type               |-> Get(d, "matchType", NA),
         data_source_id           |-> Get(best_result, "dataSourceId", NA),
         data_source_title        |-> Get(best_result, "dataSourceTitleShort", NA),
         curation                 |-> Get(best_result, "curation", NA),
         record_id                |-> Get(best_result, "recordId", NA),
         outlink                  |-> Get(best_result, "outlink", NA),
         entry_date               |-> Get(best_result, "entryDate", NA),
         sort_score               |-> Get(best_result, "sortScore", 0),
         matched_name_id          |-> Get(best_result, "matchedNameID", NA),
         matched_name             |-> Get(best_result, "matchedName", NA),
         matched_cardinality      |-> Get(best_result, "matchedCardinality", 0),
         matched_canonical_simple |-> Get(best_result, "matchedCanonicalSimple", NA),
         matched_canonical_full   |-> Get(best_result, "matchedCanonicalFull", NA),
         current_record_id        |-> Get(best_result, "currentRecordId", NA),
         current_name_id          |-> Get(best_result, "currentNameId", NA),
         current_name             |-> Get(best_result, "currentName", NA),
         current_cardinality      |-> Get(best_result, "currentCardinality", 0),
         current_canonical_simple |-> Get(best_result, "currentCanonicalSimple", NA),
         current_canonical_full   |-> Get(best_result, "currentCanonicalFull", NA),
         taxonomic_status         |-> Get(best_result, "taxonomicStatus", NA),
         is_synonym               |-> Get(best_result, "isSynonym", FALSE),
         classification_path      |-> Get(best_result, "classificationPath", NAstr),
         classification_ranks     |-> Get(best_result, "classificationRanks", NAstr),
         classification_ids       |-> Get(best_result, "classificationIds", NAstr),
         edit_distance            |-> Get(best_result, "editDistance", 0),
         stem_edit_distance       |-> Get(best_result, "stemEditDistance", 0),
         match_type_detail        |-> Get(best_result, "matchType", NA),
         score_details            |-> Get(best_result, "scoreDetails", EmptyMap)]

NameResult_to_dict(n) ==
    [inputName   |-> n.input_name,
     cardinality |-> n.cardinality,
     matchType   |-> n.match_type,
     bestResult  |->
        [dataSourceId           |-> n.data_source_id,
         dataSourceTitleShort   |-> n.data_source_title,
         curation               |-> n.curation,
         recordId               |-> n.record_id,
         outlink                |-> n.outlink,
         entryDate              |-> n.entry_date,
         sortScore              |-> n.sort_score,
         matchedNameID          |-> n.matched_name_id,
         matchedName            |-> n.matched_name,
         matchedCardinality     |-> n.matched_cardinality,
         matchedCanonicalSimple |-> n.matched_canonical_simple,
         matchedCanonicalFull   |-> n.matched_canonical_full,
         currentRecordId        |-> n.current_record_id,
         currentNameId          |-> n.current_name_id,
         currentName            |-> n.current_name,
         currentCardinality     |-> n.current_cardinality,
         currentCanonicalSimple |-> n.current_canonical_simple,
         currentCanonicalFull   |-> n.current_canonical_full,
         taxonomicStatus        |-> n.taxonomic_status,
         isSynonym              |-> n.is_synonym,
         classificationPath     |-> n.classification_path,
         classificationRanks    |-> n.classification_ranks,
         classificationIds      |-> n.classification_ids,
         editDistance           |-> n.edit_distance,
         stemEditDistance       |-> n.stem_edit_distance,
         matchType              |-> n.match_type_detail,
         scoreDetails           |-> n.score_details]]

\* ---------------------------------------------------- GNVerifierResponse
GNVerifierResponse_reversed(d) ==
    LET names_data == Get(d, "names", <<>>)
    IN  [metadata |-> Metadata(Get(d, "metadata", EmptyMap)),
         names    |-> [i \in 1..Len(names_data) |->
                          NameResult(names_data[Len(names_data) + 1 - i])]]

GNVerifierResponse(d) ==
    LET names_data == Get(d, "names", <<>>)
    IN  [metadata |-> Metadata(Get(d, "metadata", EmptyMap)),
         names    |-> [i \in 1..Len(names_data) |-> NameResult(names_data[i])]]

\* export_as_json: the object that json.dumps serialises
export_as_json(r) ==
    [metadata |-> Metadata_to_dict(r.metadata),
     names    |-> [i \in 1..Len(r.names) |-> NameResult_to_dict(r.names[i])]]

\* ------------------------------------------------- bodies the service sends
PathNames == <<"Animalia", "Chordata", "Mammalia", "Primates">>
RankNames == <<"kingdom", "phylum", "class", "order">>
IdNames == <<"1", "2", "3", "4">>

MetaPool(k) ==
    CASE k = "namesNumber" -> {1, 2}
      [] k = "withStats" -> {TRUE}
      [] k = "dataSources" -> {<<1>>}
      [] k = "mainTaxonThreshold" -> {6}
      [] k = "statsNamesNum" -> {1}
      [] k = "mainTaxon" -> {"Animalia"}
      [] k = "mainTaxonPercentage" -> {5}
      [] k = "kingdom" -> {"Plantae"}
      [] k = "kingdomPercentage" -> {5}
      [] k = "kingdoms" ->
            {<<[kingdomName |-> "Plantae", namesNumber |-> 1, percentage |-> 5]>>}

BestPool(k) ==
    CASE k \in {"dataSourceId", "matchedCardinality", "currentCardinality",
                "editDistance", "stemEditDistance"} -> {1}
      [] k = "sortScore" -> {9}
      [] k = "isSynonym" -> {TRUE}
      [] k = "classificationPath" -> {Str(Join(SubSeq(PathNames, 1, 2)))}
      [] k = "classificationRanks" -> {Str(Join(SubSeq(RankNames, 1, 2)))}
      [] k = "classificationIds" -> {Str(Join(SubSeq(IdNames, 1, 2)))}
      [] k = "scoreDetails" -> {[cardinalityScore |-> 1]}
      [] k = "matchedName" -> {"Pomatomus saltatrix"}
      [] OTHER -> {"v"}

NamePool(k) ==
    CASE k = "name" -> {"Pomatomus saltatrix", "Bubo bubo"}
      [] k = "cardinality" -> {2}
      [] k = "matchType" -> {"Exact"}

RECURSIVE MetaMapsOver(_)
MetaMapsOver(S) ==
    IF S = {} THEN {EmptyMap}
    ELSE LET e == CHOOSE e \in S : TRUE
         IN  {(e :> v) @@ m : v \in MetaPool(e), m \in MetaMapsOver(S \ {e})}

RECURSIVE BestMapsOver(_)
BestMapsOver(S) ==
    IF S = {} THEN {EmptyMap}
    ELSE LET e == CHOOSE e \in S : TRUE
         IN  {(e :> v) @@ m : v \in BestPool(e), m \in BestMapsOver(S \ {e})}

RECURSIVE NameMapsOver(_)
NameMapsOver(S) ==
    IF S = {} THEN {EmptyMap}
    ELSE LET e == CHOOSE e \in S : TRUE
         IN  {(e :> v) @@ m : v \in NamePool(e), m \in NameMapsOver(S \ {e})}

MetaInputs == UNION {MetaMapsOver(S) : S \in KeyFamilies(MetadataKeys)}

\* a matched record carrying the three classification strings, n segments each
ClassificationInput(n) ==
    [classificationPath  |-> Str(Join(SubSeq(PathNames, 1, n))),
     classificationRanks |-> Str(Join(SubSeq(RankNames, 1, n))),
     classificationIds   |-> Str(Join(SubSeq(IdNames, 1, n)))]

BestInputs ==
    UNION {BestMapsOver(S) : S \in KeyFamilies(BestResultKeys)}
    \cup {ClassificationInput(n) : n \in 1..MaxSegments}

ResultElems == {EmptyMap, [matchedName |-> "Pomatomus saltatrix"],
                [matchedName |-> "Bubo bubo"]}

ResultLists == UNION {[1..n -> ResultElems] : n \in 0..MaxResults}

NameScalarInputs == UNION {NameMapsOver(S) : S \in SUBSET NameScalarKeys}

FullNameScalars == UNION {NameMapsOver(S) : S \in {{}, NameScalarKeys}}

\* an element of "names" with match records: bestResult or results
MatchedNameInputs ==
    {("bestResult" :> b) @@ s : b \in BestInputs, s \in FullNameScalars}
    \cup {("results" :> r) @@ s : r \in ResultLists, s \in FullNameScalars}

PlainNameLists == UNION {[1..n -> NameScalarInputs] : n \in 0..MaxBodyNames}

\* "names" lists with one element that carries match records
NameLists ==
    WithOne(UNION {[1..n -> FullNameScalars] : n \in 0..(MaxNames - 1)},
            MatchedNameInputs)

ResponseInputs ==
    {EmptyMap}
    \cup {[metadata |-> m] : m \in MetaInputs}
    \cup {[names |-> l] : l \in NameLists \cup PlainNameLists}
    \cup {[metadata |-> m, names |-> l] :
            m \in MetaMapsOver({"namesNumber"}), l \in PlainNameLists}

\* --------------------------------------------------------- parsing steps
SLEEP_TIME == 5

validity_duration == 60 * 60 * 24 * 7 * 10

\* the runs start long after the epoch
StartTime == 2 * SLEEP_TIME

\* no call of the API under way, for the processes of the set P
ApiIdle(P) ==
    /\ clock = StartTime
    /\ metadata = None
    /\ cache = [path \in {} |-> None]
    /\ pc = [p \in P |-> "idle"]
    /\ call = [p \in P |-> None]
    /\ issues = <<>>
    /\ started = 0
    /\ overlapped = FALSE

Quiet ==
    /\ data = None /\ response = None /\ exported = None
    /\ request = None /\ wire = None
    /\ net = None /\ result = None
    /\ catalog = <<>> /\ selected = {} /\ lastInclude = None
    /\ options = None /\ lastCall = None
    /\ files = {}

Idle == Quiet /\ ApiIdle({})

Receive(d) ==
    /\ ~data.has
    /\ data' = Some(d)
    /\ response' = None
    /\ exported' = None
    /\ UNCHANGED <<requestVars, clientVars, builderVars, cliVars, apiVars>>

Parse ==
    /\ data.has
    /\ ~response.has
    /\ response' = Some(GNVerifierResponse(data.v))
    /\ UNCHANGED <<data, exported, requestVars, clientVars, builderVars, cliVars, apiVars>>

Export ==
    /\ response.has
    /\ ~exported.has
    /\ exported' = Some(export_as_json(response.v))
    /\ UNCHANGED <<data, response, requestVars, clientVars, builderVars, cliVars, apiVars>>

ParseInit == Idle

ParseNext ==
    \/ \E d \in ResponseInputs : Receive(d)
    \/ Parse
    \/ Export

SpecParse == ParseInit /\ [][ParseNext]_vars

\* ------------------------------------------------- VerificationRequest
\* VerificationRequest.__init__: every argument is stored as given
VerificationRequest(names, data_sources, all_matches, capitalization, species_group, uninomial_fuzzy_match, stats, threshold) ==
    [names                      |-> names,
     data_sources               |-> data_sources,
     with_all_matches           |-> all_matches,
     with_capitalization        |-> capitalization,
     with_species_group         |-> species_group,
     with_uninomial_fuzzy_match |-> uninomial_fuzzy_match,
     with_stats                 |-> stats,
     main_taxon_threshold       |-> threshold]

to_dict(r) ==
    [nameStrings             |-> r.names,
     dataSources             |-> r.data_sources,
     withAllMatches          |-> r.with_all_matches,
     withCapitalization      |-> r.with_capitalization,
     withSpeciesGroup        |-> r.with_species_group,
     withUninomialFuzzyMatch |-> r.with_uninomial_fuzzy_match,
     withStats               |-> r.with_stats,
     mainTaxonThreshold      |-> r.main_taxon_threshold]

\* arguments a caller passes; thresholds in tenths, 6 is the default 0.6
RequestNames == {<<>>, <<"Pomatomus saltatrix">>,
                 <<"Pomatomus saltatrix", "Bubo bubo">>}
RequestDataSources == {None, Some(<<>>), Some(<<1, 12>>)}
Thresholds == {-1, 0, 6, 10, 11}

NewRequest(names, data_sources, all_matches, capitalization, species_group, uninomial_fuzzy_match, stats, threshold) ==
    /\ ~request.has
    /\ request' = Some(VerificationRequest(names, data_sources, all_matches,
                          capitalization, species_group,
                          uninomial_fuzzy_match, stats, threshold))
    /\ wire' = None
    /\ UNCHANGED <<parseVars, clientVars, builderVars, cliVars, apiVars>>

ToDict ==
    /\ request.has
    /\ ~wire.has
    /\ wire' = Some(to_dict(request.v))
    /\ UNCHANGED <<request, parseVars, clientVars, builderVars, cliVars, apiVars>>

RequestInit == Idle

RequestNext ==
    \/ \E names \in RequestNames, ds \in RequestDataSources,
          f \in [1..5 -> BOOLEAN], t \in Thresholds :
          NewRequest(names, ds, f[1], f[2], f[3], f[4], f[5], t)
    \/ ToDict

SpecRequest == RequestInit /\ [][RequestNext]_vars

\* --------------------------------------------------------- the transport
\* What the HTTP library does with one request: it raises, or it delivers a
\* response with a status code and a decoded JSON body.
Raised(cause) == [status |-> "raised", cause |-> cause]
Returned(value) == [status |-> "returned", value |-> value]

TransportErrors == {"ConnectionError", "Timeout"}
ErrorStatusCodes == {404, 500}

Replies(bodies) ==
    {[kind |-> "error", cause |-> c] : c \in TransportErrors}
    \cup {[kind |-> "response", status_code |-> 200, body |-> b] : b \in bodies}
    \cup {[kind |-> "response", status_code |-> c, body |-> EmptyMap] :
            c \in ErrorStatusCodes}

\* Response.raise_for_status raises HTTPError on a 4xx or 5xx status
BaseAPI_request(reply) ==
    IF reply.kind = "error" THEN Raised(reply.cause)
    ELSE IF reply.status_code >= 400 THEN Raised("HTTPError")
    ELSE Returned(reply.body)

BaseAPI_get(reply) == BaseAPI_request(reply)

BaseAPI_post(reply) == BaseAPI_request(reply)

Failed(reply) == reply.kind = "error" \/ reply.status_code >= 400

\* ------------------------------------------------------ GNVerifier.verify
verify(reply) ==
    LET posted == BaseAPI_post(reply)
    IN  IF posted.status = "returned"
        THEN [status  |-> "returned",
              value   |-> GNVerifierResponse(posted.value),
              warning |-> "none"]
        ELSE [status  |-> "returned",
              value   |-> GNVerifierResponse(EmptyMap),
              warning |-> IF posted.cause = "HTTPError"
                          THEN "HTTP error occurred"
                          ELSE "Other error occurred"]

VerifyBodies ==
    {EmptyMap}
    \cup {[metadata |-> m] : m \in MetaInputs}
    \cup {[names |-> l] : l \in PlainNameLists}
    \cup {[metadata |-> m, names |-> l] :
            m \in MetaMapsOver({"namesNumber"}), l \in PlainNameLists}

Verify(reply) ==
    /\ request.has
    /\ ~net.has
    /\ wire' = Some(to_dict(request.v))
    /\ net' = Some(reply)
    /\ result' = verify(reply)
    /\ UNCHANGED <<request, parseVars, builderVars, cliVars, apiVars>>

VerifyInit == Idle

\* a request built as VerificationRequest(names=...), the options defaulted
VerifyNext ==
    \/ \E names \in RequestNames :
          NewRequest(names, None, FALSE, FALSE, FALSE, FALSE, FALSE, 6)
    \/ \E reply \in Replies(VerifyBodies) : Verify(reply)

Spec == VerifyInit /\ [][VerifyNext]_vars

\* ------------------------------------------------------------ DataSource
RecordKeys ==
    {"uuid", "title", "titleShort", "version", "description", "homeURL",
     "isOutlinkReady", "curation", "hasTaxonData", "recordCount", "updatedAt"}

DataSource(ds) ==
    [datasource_id    |-> ds["id"],
     uuid             |-> Get(ds, "uuid", NA),
     title            |-> Get(ds, "title", NA),
     title_short      |-> Get(ds, "titleShort", NA),
     version          |-> Get(ds, "version", NA),
     description      |-> Get(ds, "description", "No description available"),
     home_url         |-> Get(ds, "homeURL", NA),
     is_outlink_ready |-> Get(ds, "isOutlinkReady", FALSE),
     curation         |-> Get(ds, "curation", "Unknown"),
     has_taxon_data   |-> Get(ds, "hasTaxonData", FALSE),
     record_count     |-> Get(ds, "recordCount", 0),
     updated_at       |-> Get(ds, "updatedAt", NA)]

\* DataSourceClient.get_data_sources: nothing is caught; ds["id"] raises
\* KeyError on a record without the key
get_data_sources_skip_no_id(reply) ==
    LET got == BaseAPI_get(reply)
    IN  IF got.status = "raised" THEN got
        ELSE LET kept == SelectSeq(got.value, LAMBDA ds : "id" \in DOMAIN ds)
             IN  Returned([i \in 1..Len(kept) |-> DataSource(kept[i])])

get_data_sources_swallow(reply) ==
    LET got == BaseAPI_get(reply)
    IN  IF got.status = "raised" THEN Returned(<<>>)
        ELSE IF \E i \in 1..Len(got.value) : "id" \notin DOMAIN got.value[i]
             THEN Raised("KeyError")
             ELSE Returned([i \in 1..Len(got.value) |-> DataSource(got.value[i])])

get_data_sources_reversed(reply) ==
    LET got == BaseAPI_get(reply)
    IN  IF got.status = "raised" THEN got
        ELSE IF \E i \in 1..Len(got.value) : "id" \notin DOMAIN got.value[i]
             THEN Raised("KeyError")
             ELSE Returned([i \in 1..Len(got.value) |->
                              DataSource(got.value[Len(got.value) + 1 - i])])

get_data_sources(reply) ==
    LET got == BaseAPI_get(reply)
    IN  IF got.status = "raised" THEN got
        ELSE IF \E i \in 1..Len(got.value) : "id" \notin DOMAIN got.value[i]
             THEN Raised("KeyError")
             ELSE Returned([i \in 1..Len(got.value) |-> DataSource(got.value[i])])

\* the two records of the catalog: values of each key
RecordValue(k, n) ==
    CASE k = "id" -> n
      [] k = "title" -> <<"Catalogue of Life", "Biodiversity Heritage Library">>[n]
      [] k = "titleShort" -> <<"COL", "BHL">>[n]
      [] k = "recordCount" -> <<1000, 500>>[n]
      [] k \in {"isOutlinkReady", "hasTaxonData"} -> TRUE
      [] k = "curation" -> "Curated"
      [] OTHER -> <<"v1", "v2">>[n]

Record(n, S) == [k \in S |-> RecordValue(k, n)]

FullRecords == {Record(n, RecordKeys \cup {"id"}) : n \in 1..2}

RecordInputs ==
    {Record(n, S \cup I) : n \in 1..2, S \in KeyFamilies(RecordKeys), I \in {{}, {"id"}}}

\* replies of the catalog endpoint: full records, or one record with keys absent
CatalogBodies ==
    UNION {[1..n -> FullRecords] : n \in 0..MaxRecords}
    \cup WithOne(UNION {[1..n -> FullRecords] : n \in 0..(MaxRecords - 1)},
                  RecordInputs)

GetDataSources(reply) ==
    /\ ~net.has
    /\ net' = Some(reply)
    /\ result' = get_data_sources(reply)
    /\ UNCHANGED <<parseVars, requestVars, builderVars, cliVars, apiVars>>

CatalogInit == Idle

CatalogNext == \E reply \in Replies(CatalogBodies) : GetDataSources(reply)

SpecCatalog == CatalogInit /\ [][CatalogNext]_vars

\* ------------------------------------- request configuration (builder)
\* Strings of the catalog are chunk sequences; a blank is the chunk " ".
LowerOf(c) ==
    CASE c = "Catalogue" -> "catalogue"
      [] c = "Life" -> "life"
      [] c = "COL" -> "col"
      [] c = "BHL" -> "bhl"
      [] c = "Biodiversity" -> "biodiversity"
      [] c = "Heritage" -> "heritage"
      [] c = "Library" -> "library"
      [] c = "ITIS" -> "itis"
      [] OTHER -> c

\* normalized argument name: lower-cased, blanks replaced by hyphens
Normalize(t) == [i \in 1..Len(t) |-> IF t[i] = " " THEN "-" ELSE LowerOf(t[i])]

ConfigSource(id, title, title_short) ==
    [id             |-> id,
     title          |-> title,
     title_short    |-> title_short,
     arg_name       |-> Normalize(title),
     short_arg_name |-> Normalize(title_short)]

NameForms(ds) == {ds.arg_name, ds.short_arg_name, ds.title, ds.title_short}

Matches(cat, name) == {i \in 1..Len(cat) : name \in NameForms(cat[i])}

FirstMatch(cat, name) ==
    CHOOSE i \in Matches(cat, name) : \A j \in Matches(cat, name) : i <= j

Titles(cat) == [i \in 1..Len(cat) |-> cat[i].title]

\* include_data_source: linear scan, the first entry with a matching form
include_data_source_by_position(cat, sel, name) ==
    IF Matches(cat, name) = {}
    THEN [status |-> "UnknownDataSourceError", data_source |-> name,
          available |-> Titles(cat), selected |-> sel]
    ELSE [status |-> "ok", selected |-> sel \cup {FirstMatch(cat, name)}]

include_data_source_titles_only(cat, sel, name) ==
    LET hits == {i \in 1..Len(cat) : name \in {cat[i].title, cat[i].title_short}}
    IN  IF hits = {}
        THEN [status |-> "UnknownDataSourceError", data_source |-> name,
              available |-> Titles(cat), selected |-> sel]
        ELSE [status |-> "ok",
              selected |-> sel \cup
                  {cat[CHOOSE i \in hits : \A j \in hits : i <= j].id}]

include_data_source(cat, sel, name) ==
    IF Matches(cat, name) = {}
    THEN [status |-> "UnknownDataSourceError", data_source |-> name,
          available |-> Titles(cat), selected |-> sel]
    ELSE [status |-> "ok",
          selected |-> sel \cup {cat[FirstMatch(cat, name)].id}]

TitlePool == {<<"Catalogue", " ", "of", " ", "Life">>,
              <<"Biodiversity", " ", "Heritage", " ", "Library">>,
              <<"COL">>, <<"ITIS">>}
ShortPool == {<<"COL">>, <<"BHL">>, <<"ITIS">>}
SourceIds == {1, 4, 12}

SourcePool ==
    {ConfigSource(i, t, s) : i \in SourceIds, t \in TitlePool, s \in ShortPool}

\* The catalog of the service: every entry has its own ID and its own names
\* (build_verify_parser registers one --include flag per argument name).
Catalogs ==
    {c \in UNION {[1..n -> SourcePool] : n \in 0..MaxSources} :
        \A i, j \in 1..Len(c) :
            i < j => /\ c[i].id # c[j].id
                     /\ NameForms(c[i]) \cap NameForms(c[j]) = {}}

IncludeNames ==
    TitlePool \cup ShortPool \cup {Normalize(t) : t \in TitlePool \cup ShortPool}
    \cup {<<"GBIF">>}

\* options of a fresh configuration: every flag off, threshold 0.6
DefaultOptions ==
    [with_all_matches           |-> FALSE,
     with_capitalization        |-> FALSE,
     with_species_group         |-> FALSE,
     with_uninomial_fuzzy_match |-> FALSE,
     with_stats                 |-> FALSE,
     main_taxon_threshold       |-> 6]

Flags ==
    {"with_all_matches", "with_capitalization", "with_species_group",
     "with_uninomial_fuzzy_match", "with_stats"}

\* the boolean mutators: each one turns its own flag on
with_all_matches(cfg) == [cfg EXCEPT !.with_all_matches = TRUE]

with_capitalization(cfg) == [cfg EXCEPT !.with_capitalization = TRUE]

with_species_group(cfg) == [cfg EXCEPT !.with_species_group = TRUE]

with_uninomial_fuzzy_match(cfg) == [cfg EXCEPT !.with_uninomial_fuzzy_match = TRUE]

with_stats_toggle(cfg) == [cfg EXCEPT !.with_stats = ~cfg.with_stats]

with_stats(cfg) == [cfg EXCEPT !.with_stats = TRUE]

Mutate(f, cfg) ==
    CASE f = "with_all_matches" -> with_all_matches(cfg)
      [] f = "with_capitalization" -> with_capitalization(cfg)
      [] f = "with_species_group" -> with_species_group(cfg)
      [] f = "with_uninomial_fuzzy_match" -> with_uninomial_fuzzy_match(cfg)
      [] f = "with_stats" -> with_stats(cfg)

\* set_main_taxon_threshold: validated at assignment, in tenths
set_main_taxon_threshold(cfg, t) ==
    IF t < 0 \/ t > 10
    THEN [status |-> "InvalidTaxonThresholdError", taxon_threshold |-> t,
          options |-> cfg]
    ELSE [status |-> "ok", options |-> [cfg EXCEPT !.main_taxon_threshold = t]]

\* the configuration is constructed: the catalog is fetched once
Configure(cat) ==
    /\ ~net.has
    /\ net' = Some([kind |-> "catalog"])
    /\ catalog' = cat
    /\ selected' = {}
    /\ lastInclude' = None
    /\ options' = Some(DefaultOptions)
    /\ lastCall' = None
    /\ UNCHANGED <<result, parseVars, requestVars, cliVars, apiVars>>

IncludeDataSource(name) ==
    /\ net.has
    /\ LET r == include_data_source(catalog, selected, name)
       IN  /\ selected' = r.selected
           /\ lastInclude' = Some([name |-> name, before |-> selected, r |-> r])
    /\ UNCHANGED <<catalog, options, lastCall, clientVars, parseVars, requestVars, cliVars, apiVars>>

\* one of the five boolean mutators is called; it returns the builder itself
WithFlag(f) ==
    /\ net.has
    /\ options' = Some(Mutate(f, options.v))
    /\ lastCall' = Some([op |-> f, status |-> "ok", returns |-> "self"])
    /\ UNCHANGED <<catalog, selected, lastInclude, clientVars, parseVars, requestVars, cliVars, apiVars>>

SetMainTaxonThreshold(t) ==
    /\ net.has
    /\ LET r == set_main_taxon_threshold(options.v, t)
       IN  /\ options' = Some(r.options)
           /\ lastCall' = Some([op |-> "set_main_taxon_threshold", status |-> r.status,
                                returns |-> IF r.status = "ok" THEN "self" ELSE "raised"])
    /\ UNCHANGED <<catalog, selected, lastInclude, clientVars, parseVars, requestVars, cliVars, apiVars>>

\* one catalog and a few names, for the runs that exercise the options
OptionCatalog ==
    <<ConfigSource(1, <<"Catalogue", " ", "of", " ", "Life">>, <<"COL">>),
      ConfigSource(4, <<"Biodiversity", " ", "Heritage", " ", "Library">>, <<"BHL">>)>>

OptionNames == {<<"col">>, <<"BHL">>, <<"GBIF">>}

OptionsInit == Idle

OptionsNext ==
    \/ Configure(OptionCatalog)
    \/ \E name \in OptionNames : IncludeDataSource(name)
    \/ \E f \in Flags : WithFlag(f)
    \/ \E t \in Thresholds : SetMainTaxonThreshold(t)

SpecOptions == OptionsInit /\ [][OptionsNext]_vars

BuilderInit == Idle

BuilderNext ==
    \/ \E cat \in Catalogs : Configure(cat)
    \/ \E name \in IncludeNames : IncludeDataSource(name)

SpecBuilder == BuilderInit /\ [][BuilderNext]_vars

\* ------------------------------------- BaseAPI: rate limit and cache
\* Time is counted in tenths of a second. The straight-line code of a call
\* takes no time; time passes while a process is idle, sleeps or waits for
\* the reply of the service.
GetCall ==
    [op |-> "get_data_sources", method |-> "GET", endpoint |-> "data_sources",
     json |-> None]

PostCall(names) ==
    [op |-> "verify", method |-> "POST", endpoint |-> "verifications",
     json |-> Some(to_dict(VerificationRequest(names, None, FALSE, FALSE, FALSE, FALSE, FALSE, 6)))]

PostNames == {<<"Pomatomus saltatrix">>, <<"Homo sapiens">>}

ApiCalls == {GetCall} \cup {PostCall(names) : names \in PostNames}

\* {_hash}: the digest of the arguments of the call; distinct bodies of the
\* runs have distinct digests
Hash(json) ==
    IF json.v.nameStrings = <<"Pomatomus saltatrix">> THEN "digest-1" ELSE "digest-2"

\* cache_path of the decorators of _get and _post
cache_path_endpoint_only(c) == <<"cache_dir", c.endpoint>>

cache_path(c) ==
    IF c.method = "GET"
    THEN <<"cache_dir", c.endpoint>>
    ELSE <<"cache_dir", c.endpoint, Hash(c.json)>>

\* an entry is served while it is younger than validity_duration and is
\* recomputed once it is older
CacheServes_forever(path) == path \in DOMAIN cache

CacheServes(path) ==
    /\ path \in DOMAIN cache
    /\ clock - cache[path].creation_time <= validity_duration

CacheMisses(path) ==
    IF path \in DOMAIN cache
    THEN clock - cache[path].creation_time >= validity_duration
    ELSE TRUE

\* what reaches the caller of get_data_sources or verify
Finish(op, reply) ==
    IF op = "verify" THEN verify(reply) ELSE get_data_sources(reply)

CachedReply(value) == [kind |-> "response", status_code |-> 200, body |-> value]

ReplyBodies(op) ==
    IF op = "verify"
    THEN {EmptyMap, [metadata |-> [namesNumber |-> 1]]}
    ELSE {<<[id |-> 1]>>, <<[id |-> 1], [id |-> 4]>>}

NewCall(c) ==
    [op |-> c.op, method |-> c.method, endpoint |-> c.endpoint, json |-> c.json,
     path |-> cache_path(c), begun |-> clock, hit |-> FALSE,
     last_request |-> -1, sleep_time |-> 0, wake |-> 0, stamped |-> FALSE,
     issued |-> 0, returned |-> None, outcome |-> None]

\* where a call goes after a request that failed: the error leaves _get or
\* _post at once, nothing is tried again
AfterFailure_retry(c) == IF c.issued < 2 THEN "load" ELSE "idle"

AfterFailure(c) == "idle"

\* _auto_sleep: the pause that keeps SLEEP_TIME between two requests
sleep_time_never(time_since_last_request) == 0

sleep_time(time_since_last_request) ==
    IF time_since_last_request < SLEEP_TIME
    THEN SLEEP_TIME - time_since_last_request
    ELSE 0

\* a process calls _get or _post: the decorator looks the cache path up
Begin(p, c) ==
    /\ pc[p] = "idle"
    /\ started < MaxCalls
    /\ started' = started + 1
    /\ overlapped' = (overlapped \/ \E q \in DOMAIN pc \ {p} : pc[q] # "idle")
    /\ LET n == NewCall(c)
       IN  \/ /\ CacheServes(n.path)
              /\ call' = [call EXCEPT ![p] = Some([n EXCEPT
                     !.hit = TRUE,
                     !.returned = Some(Returned(cache[n.path].value)),
                     !.outcome = Some(Finish(n.op, CachedReply(cache[n.path].value)))])]
              /\ pc' = pc
           \/ /\ CacheMisses(n.path)
              /\ call' = [call EXCEPT ![p] = Some(n)]
              /\ pc' = [pc EXCEPT ![p] = "load"]
    /\ UNCHANGED <<clock, metadata, cache, issues>>
    /\ UNCHANGED <<parseVars, requestVars, clientVars, builderVars, cliVars>>

\* _auto_sleep, lines 28-38: load the metadata, decide on the pause
Load(p) ==
    /\ pc[p] = "load"
    /\ LET last == IF metadata.has THEN metadata.v.last_request ELSE 0
           pause == sleep_time(clock - last)
       IN  /\ call' = [call EXCEPT ![p] = Some([call[p].v EXCEPT
                  !.last_request = last,
                  !.sleep_time = pause,
                  !.wake = clock + pause])]
           /\ pc' = [pc EXCEPT ![p] = IF pause > 0 THEN "sleep" ELSE "stamp"]
    /\ UNCHANGED <<clock, metadata, cache, issues, started, overlapped>>
    /\ UNCHANGED <<parseVars, requestVars, clientVars, builderVars, cliVars>>

\* sleep(sleep_time) returns
Wake(p) ==
    /\ pc[p] = "sleep"
    /\ clock >= call[p].v.wake
    /\ pc' = [pc EXCEPT ![p] = "stamp"]
    /\ UNCHANGED <<clock, metadata, cache, call, issues, started, overlapped>>
    /\ UNCHANGED <<parseVars, requestVars, clientVars, builderVars, cliVars>>

\* _auto_sleep, lines 40-41: the time of this request is written to disk
Stamp_not_saved(p) ==
    /\ pc[p] = "stamp"
    /\ metadata' = metadata
    /\ call' = [call EXCEPT ![p] = Some([call[p].v EXCEPT !.stamped = TRUE])]
    /\ pc' = [pc EXCEPT ![p] = "send"]
    /\ UNCHANGED <<clock, cache, issues, started, overlapped>>
    /\ UNCHANGED <<parseVars, requestVars, clientVars, builderVars, cliVars>>

Stamp(p) ==
    /\ pc[p] = "stamp"
    /\ metadata' = Some([last_request |-> clock])
    /\ call' = [call EXCEPT ![p] = Some([call[p].v EXCEPT !.stamped = TRUE])]
    /\ pc' = [pc EXCEPT ![p] = "send"]
    /\ UNCHANGED <<clock, cache, issues, started, overlapped>>
    /\ UNCHANGED <<parseVars, requestVars, clientVars, builderVars, cliVars>>

\* requests.get / requests.post: the request leaves for the service
Send(p) ==
    /\ pc[p] = "send"
    /\ issues' = Append(issues, clock)
    /\ call' = [call EXCEPT ![p] = Some([call[p].v EXCEPT !.issued = @ + 1])]
    /\ pc' = [pc EXCEPT ![p] = "wait"]
    /\ UNCHANGED <<clock, metadata, cache, started, overlapped>>
    /\ UNCHANGED <<parseVars, requestVars, clientVars, builderVars, cliVars>>

\* the reply arrives; the decorator stores what the method returned
Reply(p, reply) ==
    /\ pc[p] = "wait"
    /\ LET c == call[p].v
           r == BaseAPI_request(reply)
       IN  IF r.status = "returned"
           THEN /\ cache' = [path \in DOMAIN cache \cup {c.path} |->
                                IF path = c.path
                                THEN [value |-> r.value, creation_time |-> clock]
                                ELSE cache[path]]
                /\ call' = [call EXCEPT ![p] = Some([c EXCEPT
                       !.returned = Some(r),
                       !.outcome = Some(Finish(c.op, reply))])]
                /\ pc' = [pc EXCEPT ![p] = "idle"]
           ELSE /\ cache' = cache
                /\ call' = [call EXCEPT ![p] = Some([c EXCEPT
                       !.returned = Some(r),
                       !.outcome = Some(Finish(c.op, reply))])]
                /\ pc' = [pc EXCEPT ![p] = AfterFailure(c)]
    /\ UNCHANGED <<clock, metadata, issues, started, overlapped>>
    /\ UNCHANGED <<parseVars, requestVars, clientVars, builderVars, cliVars>>

Sleepers == {p \in DOMAIN pc : pc[p] = "sleep"}

\* how far time moves in one step: a moment, a full interval, to the end of
\* a pause, or past the validity of the cache
TickSizes ==
    {2, SLEEP_TIME, validity_duration} \cup {call[p].v.wake - clock : p \in Sleepers}

\* time passes; a sleeping process is woken on time
Tick(d) ==
    /\ d > 0
    /\ \A p \in DOMAIN pc : pc[p] \in {"idle", "sleep", "wait"}
    /\ \A p \in Sleepers : clock + d <= call[p].v.wake
    /\ IF d = validity_duration
       THEN clock < validity_duration
       ELSE (clock % validity_duration) + d <= StartTime + MaxElapsed
    /\ clock' = clock + d
    /\ UNCHANGED <<metadata, cache, pc, call, issues, started, overlapped>>
    /\ UNCHANGED <<parseVars, requestVars, clientVars, builderVars, cliVars>>

\* the replies of the service to one process: a body, an error status or
\* no connection
ApiReplies(op) ==
    {r \in Replies(ReplyBodies(op)) :
        IF r.kind = "error" THEN r.cause = "ConnectionError" ELSE r.status_code # 404}

ApiNext ==
    \/ \E p \in DOMAIN pc, c \in ApiCalls : Begin(p, c)
    \/ \E p \in DOMAIN pc : Load(p)
    \/ \E p \in DOMAIN pc : Wake(p)
    \/ \E p \in DOMAIN pc : Stamp(p)
    \/ \E p \in DOMAIN pc : Send(p)
    \/ \E p \in DOMAIN pc :
          /\ pc[p] = "wait"
          /\ \E reply \in ApiReplies(call[p].v.op) : Reply(p, reply)
    \/ \E d \in TickSizes : Tick(d)

\* one process, its calls one after another
ApiInit == Quiet /\ ApiIdle({1})

SpecApi == ApiInit /\ [][ApiNext]_vars

\* two processes that share the metadata file and the cache directory
SharedInit == Quiet /\ ApiIdle({1, 2})

SharedCalls == {GetCall, PostCall(<<"Homo sapiens">>)}

SharedReplies(op) == {r \in ApiReplies(op) : r.kind = "response"}

SharedTicks == TickSizes \ {validity_duration}

SharedNext ==
    \/ \E p \in DOMAIN pc, c \in SharedCalls : Begin(p, c)
    \/ \E p \in DOMAIN pc : Load(p)
    \/ \E p \in DOMAIN pc : Wake(p)
    \/ \E p \in DOMAIN pc : Stamp(p)
    \/ \E p \in DOMAIN pc : Send(p)
    \/ \E p \in DOMAIN pc :
          /\ pc[p] = "wait"
          /\ \E reply \in SharedReplies(call[p].v.op) : Reply(p, reply)
    \/ \E d \in SharedTicks : Tick(d)

SpecShared == SharedInit /\ [][SharedNext]_vars

\* ------------------------------------------- command-line front end
\* Paths and suffixes are sequences of atoms; the empty string is <<>>.
EndsWith(s, suffix) ==
    /\ Len(s) >= Len(suffix)
    /\ SubSeq(s, Len(s) - Len(suffix) + 1, Len(s)) = suffix

COMPRESSIONS == << <<"gz">>, <<"xz">>, <<>> >>

SeparatorKeys == <<"csv", "tsv", "ssv">>

SEPARATORS == [csv |-> ",", tsv |-> "tab", ssv |-> " "]

\* f".json{compression}"
JsonSuffix(compression) == <<".", "json">> \o compression

\* f".json.{compression}"
JsonListed(compression) == <<".", "json", ".">> \o compression

\* f".{extension}{compression}"
SeparatedSuffix(extension, compression) == <<".", extension>> \o compression

JsonListing == [i \in 1..Len(COMPRESSIONS) |-> JsonListed(COMPRESSIONS[i])]

UnsupportedOutputFormatError(output_format, available_output_formats) ==
    [status                   |-> "UnsupportedOutputFormatError",
     output_format            |-> output_format,
     available_output_formats |-> available_output_formats]

Written(path, format) == [status |-> "written", path |-> path, format |-> format]

IsJsonOutput(output) ==
    \E i \in 1..Len(COMPRESSIONS) : EndsWith(output, JsonSuffix(COMPRESSIONS[i]))

\* export of the verify command
verify_export(output) ==
    IF IsJsonOutput(output)
    THEN Written(output, "json")
    ELSE UnsupportedOutputFormatError(output, JsonListing)

\* the first extension of SEPARATORS with a matching suffix, if any
SeparatorHits(output) ==
    {e \in 1..Len(SeparatorKeys) :
        \E i \in 1..Len(COMPRESSIONS) :
            EndsWith(output, SeparatedSuffix(SeparatorKeys[e], COMPRESSIONS[i]))}

\* export of the data-sources command
data_sources_export(output) ==
    IF IsJsonOutput(output)
    THEN Written(output, "json")
    ELSE IF SeparatorHits(output) # {}
    THEN LET e == CHOOSE e \in SeparatorHits(output) : \A g \in SeparatorHits(output) : e <= g
         IN  Written(output, SEPARATORS[SeparatorKeys[e]])
    ELSE UnsupportedOutputFormatError(output,
             [i \in 1..Len(SeparatorKeys) |-> <<SeparatorKeys[i]>>] \o JsonListing)

command_export(command, output) ==
    IF command = "verify" THEN verify_export(output) ELSE data_sources_export(output)

PathAtoms == {".", "json", "csv", "tsv", "ssv", "gz", "xz", "txt"}

OutputPaths ==
    {<<"out">> \o e : e \in UNION {[1..n -> PathAtoms] : n \in 0..MaxExtLen}}

Commands == {"verify", "data-sources"}

\* a command runs: it fetches from the service, then exports to args.output
RunCommand(command, output, fetched) ==
    /\ ~net.has
    /\ net' = Some([kind |-> "cli", command |-> command, output |-> output,
                    fetched |-> fetched])
    /\ LET r == command_export(command, output)
       IN  IF ~fetched
           THEN /\ result' = Some([status |-> "RequestException"])
                /\ files' = files
           ELSE /\ result' = Some(r)
                /\ files' = IF r.status = "written"
                            THEN files \cup {[path |-> r.path, format |-> r.format]}
                            ELSE files
    /\ UNCHANGED <<parseVars, requestVars, builderVars, apiVars>>

CliInit == Idle

CliNext ==
    \E command \in Commands, output \in OutputPaths, fetched \in BOOLEAN :
        RunCommand(command, output, fetched)

SpecCli == CliInit /\ [][CliNext]_vars

\* ------------------------------------- the --include flags of verify
\* Flags, destinations and names are chunk sequences like the catalog's
\* strings; "-" and "_" are chunks of their own.
\* build_verify_parser: one flag per argument name, the short one when it differs
FlagsOf(ds) ==
    IF ds.arg_name # ds.short_arg_name
    THEN << [source |-> ds.id, flag |-> <<"--", "include", "-">> \o ds.arg_name],
            [source |-> ds.id, flag |-> <<"--", "include", "-">> \o ds.short_arg_name] >>
    ELSE << [source |-> ds.id, flag |-> <<"--", "include", "-">> \o ds.arg_name] >>

RECURSIVE RegisteredFlags(_)
RegisteredFlags(cat) ==
    IF cat = <<>> THEN <<>>
    ELSE FlagsOf(Head(cat)) \o RegisteredFlags(Tail(cat))

\* argparse: the destination of "--x-y" is "x_y"
Dest(flag) ==
    LET body == Tail(flag)
    IN  [i \in 1..Len(body) |-> IF body[i] = "-" THEN "_" ELSE body[i]]

StartsWithInclude(dest) ==
    Len(dest) >= 2 /\ dest[1] = "include" /\ dest[2] = "_"

\* arg_name.replace("include_", ""): every occurrence is removed
RECURSIVE RemoveInclude(_)
RemoveInclude(dest) ==
    IF dest = <<>> THEN <<>>
    ELSE IF StartsWithInclude(dest) THEN RemoveInclude(Tail(Tail(dest)))
    ELSE <<Head(dest)>> \o RemoveInclude(Tail(dest))

data_source_name(dest) == RemoveInclude(dest)

\* the loop of verify over the destinations that are set, in the order of
\* registration; an UnknownDataSourceError leaves the loop and the command
RECURSIVE IncludeAll(_, _, _)
IncludeAll(cat, sel, names) ==
    IF names = <<>> THEN [status |-> "ok", selected |-> sel]
    ELSE LET r == include_data_source(cat, sel, Head(names))
         IN  IF r.status = "ok"
             THEN IncludeAll(cat, r.selected, Tail(names))
             ELSE r

\* the names verify passes for the flags of the set S of positions
PassedNames(cat, S) ==
    LET flags == RegisteredFlags(cat)
        set == SelectSeq([i \in 1..Len(flags) |-> [i |-> i, f |-> flags[i]]], LAMBDA x : x.i \in S)
    IN  [j \in 1..Len(set) |-> data_source_name(Dest(set[j].f.flag))]

\* verify runs with the flags of S on the command line
VerifyWithFlags(S) ==
    /\ net.has
    /\ ~result.has
    /\ LET r == IncludeAll(catalog, selected, PassedNames(catalog, S))
       IN  /\ selected' = r.selected
           /\ result' = Some([kind |-> "flags", set |-> S, status |-> r.status,
                              names |-> PassedNames(catalog, S)])
    /\ UNCHANGED <<net, catalog, lastInclude, options, lastCall>>
    /\ UNCHANGED <<parseVars, requestVars, cliVars, apiVars>>

FlagsInit == Idle

FlagsNext ==
    \/ \E cat \in Catalogs : Configure(cat)
    \/ \E S \in SUBSET (1..Len(RegisteredFlags(catalog))) : VerifyWithFlags(S)

SpecFlags == FlagsInit /\ [][FlagsNext]_vars

\* ======================================================== properties

\* C1: a request never carries a main-taxon threshold outside [0,1] (0..10
\* in tenths), neither as built nor as rendered for submission, because
\* setting such a threshold fails with InvalidTaxonThresholdError.
ThresholdAlwaysInRange ==
    /\ request.has => request.v.main_taxon_threshold \in 0..10
    /\ wire.has => wire.v.mainTaxonThreshold \in 0..10

KeptIn(src, out) == \A k \in DOMAIN src : k \in DOMAIN out /\ out[k] = src[k]

NameKept(nd, out) ==
    \A k \in DOMAIN nd :
        /\ k \in DOMAIN out
        /\ IF k = "bestResult" THEN KeptIn(nd[k], out[k]) ELSE out[k] = nd[k]

\* C3: round trip: every field present in the body d is found in the exported
\* dictionary under the same key with the same value.
RoundTripKeepsFields ==
    exported.has =>
        LET d == data.v
            out == exported.v
        IN  /\ "metadata" \in DOMAIN d => KeptIn(d.metadata, out.metadata)
            /\ "names" \in DOMAIN d =>
                  /\ Len(out.names) = Len(d.names)
                  /\ \A i \in 1..Len(d.names) : NameKept(d.names[i], out.names[i])

AllHaveId(body) == \A i \in 1..Len(body) : "id" \in DOMAIN body[i]

CatalogListed(body) ==
    /\ result.status = "returned"
    /\ Len(result.value) = Len(body)
    /\ \A i \in 1..Len(body) :
          /\ result.value[i].title = Get(body[i], "title", NA)
          /\ result.value[i].record_count = Get(body[i], "recordCount", 0)

FailureCause(reply) == IF reply.kind = "error" THEN reply.cause ELSE "HTTPError"

\* C6: a failed catalog request (the transport raises, or an error status)
\* is propagated by get_data_sources; no list is returned.
CatalogFailurePropagates ==
    (net.has /\ Failed(net.v)) =>
        /\ result.status = "raised"
        /\ result.cause = FailureCause(net.v)

CatalogFailurePropagatesWitness ==
    /\ net.has /\ Failed(net.v)
    /\ result.status = "raised"
    /\ result.cause = "ConnectionError"

\* C7: a failed verification request is surfaced to the caller of verify with
\* its cause; no response object is returned.
VerifyFailureSurfaces ==
    (net.has /\ Failed(net.v)) =>
        /\ result.status = "raised"
        /\ result.cause = FailureCause(net.v)

ClassificationAttrs ==
    {"classification_path", "classification_ranks", "classification_ids"}

Triples(ranks, path, ids) ==
    [j \in 1..Len(Split(path)) |->
        <<Split(ranks)[j], Split(path)[j], Split(ids)[j]>>]

EqualSegments(b) ==
    /\ {"classificationPath", "classificationRanks", "classificationIds"}
          \subseteq DOMAIN b
    /\ Len(Split(b.classificationPath.str)) = Len(Split(b.classificationRanks.str))
    /\ Len(Split(b.classificationPath.str)) = Len(Split(b.classificationIds.str))

\* C8: for a matched record whose path, ranks and ids have n segments each,
\* the name result holds the parsed classification: the list of the n triples
\* (i-th rank, i-th path name, i-th id).
ClassificationParsedToTriples ==
    response.has =>
        \A i \in 1..Len(response.v.names) :
            LET nd == data.v.names[i]
                nr == response.v.names[i]
            IN  ("bestResult" \in DOMAIN nd /\ EqualSegments(nd.bestResult)) =>
                    \E a \in ClassificationAttrs :
                        /\ "list" \in DOMAIN nr[a]
                        /\ nr[a].list = Triples(nd.bestResult.classificationRanks.str,
                                                nd.bestResult.classificationPath.str,
                                                nd.bestResult.classificationIds.str)

\* the match attributes of a name result, as one match record
BestAttrs(nr) ==
    [a \in DOMAIN nr \ {"input_name", "cardinality", "match_type"} |-> nr[a]]

\* NameResult keeps the attributes of exactly one match record
MatchRecords(nr) == <<BestAttrs(nr)>>

MatchRecord(b) == BestAttrs(NameResult([bestResult |-> b]))

\* C9: a names element with bestResult gives one match record built from that
\* object, one with results gives one match record per element of the list.
MatchRecordsFollowPayload ==
    response.has =>
        \A i \in 1..Len(response.v.names) :
            LET nd == data.v.names[i]
                nr == response.v.names[i]
            IN  /\ "bestResult" \in DOMAIN nd
                      => MatchRecords(nr) = <<MatchRecord(nd.bestResult)>>
                /\ "results" \in DOMAIN nd
                      => MatchRecords(nr) =
                           [j \in 1..Len(nd.results) |-> MatchRecord(nd.results[j])]

\* the attribute each key is read into, and the default of each key
MetaAttr ==
    [namesNumber |-> "names_number", withStats |-> "with_stats",
     dataSources |-> "data_sources", mainTaxonThreshold |-> "main_taxon_threshold",
     statsNamesNum |-> "stats_names_num", mainTaxon |-> "main_taxon",
     mainTaxonPercentage |-> "main_taxon_percentage", kingdom |-> "kingdom",
     kingdomPercentage |-> "kingdom_percentage", kingdoms |-> "kingdoms"]

MetaDefault ==
    [namesNumber |-> 0, withStats |-> FALSE, dataSources |-> <<>>,
     mainTaxonThreshold |-> 0, statsNamesNum |-> 0, mainTaxon |-> NA,
     mainTaxonPercentage |-> 0, kingdom |-> NA, kingdomPercentage |-> 0,
     kingdoms |-> <<>>]

NameAttr == [name |-> "input_name", cardinality |-> "cardinality",
             matchType |-> "match_type"]

NameDefault == [name |-> NA, cardinality |-> 0, matchType |-> NA]

BestAttr ==
    [dataSourceId |-> "data_source_id", dataSourceTitleShort |-> "data_source_title",
     curation |-> "curation", recordId |-> "record_id", outlink |-> "outlink",
     entryDate |-> "entry_date", sortScore |-> "sort_score",
     matchedNameID |-> "matched_name_id", matchedName |-> "matched_name",
     matchedCardinality |-> "matched_cardinality",
     matchedCanonicalSimple |-> "matched_canonical_simple",
     matchedCanonicalFull |-> "matched_canonical_full",
     currentRecordId |-> "current_record_id", currentNameId |-> "current_name_id",
     currentName |-> "current_name", currentCardinality |-> "current_cardinality",
     currentCanonicalSimple |-> "current_canonical_simple",
     currentCanonicalFull |-> "current_canonical_full",
     taxonomicStatus |-> "taxonomic_status", isSynonym |-> "is_synonym",
     classificationPath |-> "classification_path",
     classificationRanks |-> "classification_ranks",
     classificationIds |-> "classification_ids", editDistance |-> "edit_distance",
     stemEditDistance |-> "stem_edit_distance", matchType |-> "match_type_detail",
     scoreDetails |-> "score_details"]

BestDefault ==
    [k \in BestResultKeys |->
        CASE k \in {"sortScore", "matchedCardinality", "currentCardinality",
                    "editDistance", "stemEditDistance"} -> 0
          [] k = "isSynonym" -> FALSE
          [] k \in {"classificationPath", "classificationRanks",
                    "classificationIds"} -> NAstr
          [] k = "scoreDetails" -> EmptyMap
          [] OTHER -> NA]

\* C10: building the response model from a body in which keys are absent
\* gives a response, and every absent key reads back as its default.
AbsentKeysReadDefaults ==
    response.has =>
        LET d == data.v
            r == response.v
            md == Get(d, "metadata", EmptyMap)
            nl == Get(d, "names", <<>>)
        IN  /\ \A k \in MetadataKeys \ DOMAIN md :
                  r.metadata[MetaAttr[k]] = MetaDefault[k]
            /\ Len(r.names) = Len(nl)
            /\ \A i \in 1..Len(nl) :
                  LET b == Get(nl[i], "bestResult", EmptyMap)
                  IN  /\ \A k \in NameScalarKeys \ DOMAIN nl[i] :
                            r.names[i][NameAttr[k]] = NameDefault[k]
                      /\ \A k \in BestResultKeys \ DOMAIN b :
                            r.names[i][BestAttr[k]] = BestDefault[k]

AbsentKeysReadDefaultsWitness ==
    /\ response.has
    /\ "metadata" \in DOMAIN data.v
    /\ "namesNumber" \in DOMAIN data.v.metadata
    /\ response.v.metadata.stats_names_num = 0
    /\ "names" \in DOMAIN data.v
    /\ Len(data.v.names) >= 1
    /\ "bestResult" \notin DOMAIN data.v.names[1]
    /\ response.v.names[1].matched_name = NA

WireKeys ==
    {"nameStrings", "dataSources", "withAllMatches", "withCapitalization",
     "withSpeciesGroup", "withUninomialFuzzyMatch", "withStats",
     "mainTaxonThreshold"}

\* C11: the body rendered for POST verifications has exactly the eight wire
\* keys, nameStrings is the caller's list, dataSources is a list (empty when
\* nothing was selected) and every option key carries the configured value.
WireBodyWellFormed ==
    wire.has =>
        /\ DOMAIN wire.v = WireKeys
        /\ wire.v.nameStrings = request.v.names
        /\ wire.v.dataSources.has
        /\ wire.v.withAllMatches = request.v.with_all_matches
        /\ wire.v.withCapitalization = request.v.with_capitalization
        /\ wire.v.withSpeciesGroup = request.v.with_species_group
        /\ wire.v.withUninomialFuzzyMatch = request.v.with_uninomial_fuzzy_match
        /\ wire.v.withStats = request.v.with_stats
        /\ wire.v.mainTaxonThreshold = request.v.main_taxon_threshold

\* C12: a step that calls a boolean mutator turns its own flag on, keeps the
\* other flags, the threshold and the selection, and returns the builder
\* itself; no step of the configuration turns a flag off.
MutatorCall(f) ==
    /\ lastCall'.has
    /\ lastCall' # lastCall
    /\ lastCall'.v.op = f

MutatorsSetOwnFlagOnly ==
    [][options.has =>
        /\ \A f \in Flags :
              /\ options.v[f] => options'.v[f]
              /\ MutatorCall(f) =>
                    /\ options'.v[f]
                    /\ \A g \in DOMAIN options.v \ {f} : options'.v[g] = options.v[g]
                    /\ selected' = selected
                    /\ lastCall'.v.returns = "self"]_vars

MutatorsSetOwnFlagOnlyWitness ==
    /\ options.has /\ lastCall.has
    /\ lastCall.v.op = "with_stats"
    /\ options.v.with_stats /\ options.v.with_capitalization
    /\ ~options.v.with_all_matches
    /\ options.v.main_taxon_threshold = 10
    /\ selected = {1, 4}

\* C13: the selection holds only IDs of catalog entries, at most one per
\* entry; including a source that is already selected, or a name that no
\* entry carries, leaves the selection as it was.
CatalogIds == {catalog[i].id : i \in 1..Len(catalog)}

Extensions(command) ==
    IF command = "verify" THEN {"json"} ELSE {"json", "csv", "tsv", "ssv"}

SupportedSuffixes(command) ==
    {<<".", e>> : e \in Extensions(command)}
    \cup {<<".", e, ".", c>> : e \in Extensions(command), c \in {"gz", "xz"}}

Supported(command, output) ==
    \E suffix \in SupportedSuffixes(command) : EndsWith(output, suffix)

\* C14: a command that reaches its export with an output path of an
\* unsupported extension ends in UnsupportedOutputFormatError, which carries
\* the path and the list of formats, and no file is written.
UnsupportedExportRaises ==
    (/\ net.has /\ net.v.kind = "cli" /\ net.v.fetched
     /\ ~Supported(net.v.command, net.v.output))
    => /\ result.v.status = "UnsupportedOutputFormatError"
       /\ result.v.output_format = net.v.output
       /\ Len(result.v.available_output_formats) > 0
       /\ files = {}

\* the pause a call owes: the rest of the interval since the request before
Remainder(since) == IF since < SLEEP_TIME THEN SLEEP_TIME - since ELSE 0

Missed(p) == call[p].has /\ ~call[p].v.hit

\* C15: in one sequential process two consecutive requests leave at least
\* SLEEP_TIME apart; a call that misses the cache sends its request exactly
\* the remainder of the interval after it began (at once when the interval
\* is over); the time of the request is on disk before the request leaves,
\* and the time on disk never decreases.
RequestsKeepTheInterval ==
    /\ [](\A i \in 1..(Len(issues) - 1) : issues[i + 1] - issues[i] >= SLEEP_TIME)
    /\ [](\A p \in DOMAIN pc :
            (Missed(p) /\ call[p].v.issued > 0) =>
                /\ call[p].v.stamped
                /\ call[p].v.sleep_time = Remainder(call[p].v.begun - call[p].v.last_request)
                /\ \E i \in 1..Len(issues) : issues[i] = call[p].v.begun + call[p].v.sleep_time)
    /\ [](\A p \in DOMAIN pc : pc[p] \in {"send", "wait"} =>
            /\ metadata.has
            /\ metadata.v.last_request = call[p].v.begun + call[p].v.sleep_time)
    /\ [][metadata.has =>
            /\ metadata'.has
            /\ metadata'.v.last_request >= metadata.v.last_request]_vars

RequestsKeepTheIntervalWitness ==
    /\ DOMAIN pc = {1}
    /\ Len(issues) = 2
    /\ issues[2] - issues[1] = SLEEP_TIME
    /\ Missed(1)
    /\ call[1].v.sleep_time = 3
    /\ pc[1] = "wait"

\* C16: two processes share metadata.json without a lock. As long as no
\* call begins while another process is inside one (processes that run one
\* after another, a restart included), consecutive requests stay SLEEP_TIME
\* apart; when two calls overlap, both can load the same last_request and
\* send less than SLEEP_TIME apart.
SequentialProcessesKeepTheInterval ==
    ~overlapped =>
        \A i \in 1..(Len(issues) - 1) : issues[i + 1] - issues[i] >= SLEEP_TIME

SequentialProcessesKeepTheIntervalWitness ==
    /\ DOMAIN pc = {1, 2}
    /\ overlapped
    /\ Missed(1) /\ Missed(2)
    /\ call[1].v.issued = 1 /\ call[2].v.issued = 1
    /\ call[1].v.last_request = call[2].v.last_request
    /\ Len(issues) = 2
    /\ issues[2] - issues[1] < SLEEP_TIME

\* two processes, one call each and one after the other, the second kept
\* SLEEP_TIME behind the first by the time on disk
RestartKeepsTheInterval ==
    /\ DOMAIN pc = {1, 2}
    /\ ~overlapped
    /\ Missed(1) /\ Missed(2)
    /\ call[1].v.issued = 1 /\ call[2].v.issued = 1
    /\ call[2].v.last_request = issues[1]
    /\ call[2].v.sleep_time = 3
    /\ issues[2] - issues[1] = SLEEP_TIME

\* the age of the cache entry of a path when a call looks it up
Cached(path) == path \in DOMAIN cache

Age(path) == clock - cache[path].creation_time

\* C17: a call that finds an entry younger than validity_duration returns
\* the cached value in the same step: no request leaves, no pause is taken,
\* metadata.json is not written; a call that finds its entry older than
\* validity_duration goes on to _auto_sleep and the network.
CacheHitSkipsNetworkAndLimiter ==
    /\ [][\A p \in DOMAIN pc :
            (started' # started /\ call'[p] # call[p]) =>
                LET c == call'[p].v
                IN  /\ (Cached(c.path) /\ Age(c.path) < validity_duration) =>
                          /\ c.hit
                          /\ c.returned = Some(Returned(cache[c.path].value))
                          /\ c.issued = 0 /\ c.sleep_time = 0 /\ ~c.stamped
                          /\ pc'[p] = "idle"
                          /\ issues' = issues
                          /\ metadata' = metadata
                          /\ clock' = clock
                    /\ (Cached(c.path) /\ Age(c.path) > validity_duration) =>
                          /\ ~c.hit
                          /\ pc'[p] = "load"]_vars
    /\ [](\A p \in DOMAIN pc :
            (Missed(p) /\ call[p].v.returned.has) => call[p].v.issued > 0)

CacheHitSkipsNetworkAndLimiterWitness ==
    /\ DOMAIN pc = {1}
    /\ call[1].has /\ call[1].v.hit
    /\ call[1].v.op = "verify"
    /\ call[1].v.begun - cache[call[1].v.path].creation_time = SLEEP_TIME - 1
    /\ call[1].v.returned.v.value = [metadata |-> [namesNumber |-> 1]]
    /\ Len(issues) = 1

\* an entry older than validity_duration: the call is on its way to the network
ExpiredEntryIsFetchedAgain ==
    /\ DOMAIN pc = {1}
    /\ Missed(1)
    /\ pc[1] = "wait"
    /\ Cached(call[1].v.path)
    /\ call[1].v.begun - cache[call[1].v.path].creation_time > validity_duration
    /\ Len(issues) = 2

SameCacheEntry(c1, c2) ==
    /\ c1.endpoint = c2.endpoint
    /\ c1.method = "POST" => c1.json = c2.json

\* C18: the cache changes only when a request succeeded, and then holds the
\* value returned under the path of the call; a failed request leaves the
\* cache as it was, and a call whose path has no entry goes to the network;
\* two calls share a path exactly when they name the same endpoint and, for
\* POST, send the same body.
CacheHoldsSuccessfulResultsByKey ==
    /\ [][cache' # cache =>
            \E p \in DOMAIN pc :
                /\ pc[p] = "wait"
                /\ call'[p].v.returned = Some(Returned(cache'[call[p].v.path].value))
                /\ cache'[call[p].v.path].creation_time = clock
                /\ DOMAIN cache' = DOMAIN cache \cup {call[p].v.path}
                /\ \A path \in DOMAIN cache \ {call[p].v.path} : cache'[path] = cache[path]]_vars
    /\ [][\A p \in DOMAIN pc :
            (pc[p] = "wait" /\ pc'[p] # "wait" /\ call'[p].v.returned.v.status = "raised")
                => cache' = cache]_vars
    /\ [][\A p \in DOMAIN pc :
            (started' # started /\ call'[p] # call[p] /\ ~Cached(call'[p].v.path))
                => ~call'[p].v.hit /\ pc'[p] = "load"]_vars
    /\ [](\A c1, c2 \in ApiCalls :
            (cache_path(c1) = cache_path(c2)) <=> SameCacheEntry(c1, c2))

CacheHoldsSuccessfulResultsByKeyWitness ==
    /\ DOMAIN pc = {1}
    /\ Len(issues) = 2
    /\ DOMAIN cache = {}
    /\ Missed(1)
    /\ call[1].v.op = "verify"
    /\ pc[1] = "wait"

\* two POSTs with different bodies, each with an entry of its own
DifferentBodiesCachedApart ==
    /\ Cardinality(DOMAIN cache) = 2
    /\ \A path \in DOMAIN cache : path[2] = "verifications"
    /\ \E x, y \in DOMAIN cache : cache[x].value # cache[y].value

AttrOfKey(k) ==
    CASE k = "uuid" -> "uuid"
      [] k = "title" -> "title"
      [] k = "titleShort" -> "title_short"
      [] k = "version" -> "version"
      [] k = "description" -> "description"
      [] k = "homeURL" -> "home_url"
      [] k = "isOutlinkReady" -> "is_outlink_ready"
      [] k = "curation" -> "curation"
      [] k = "hasTaxonData" -> "has_taxon_data"
      [] k = "recordCount" -> "record_count"
      [] k = "updatedAt" -> "updated_at"

\* the defaults the class documents for its parameters
DocumentedDefault(k) ==
    CASE k = "description" -> "No description available"
      [] k = "curation" -> "Unknown"
      [] k \in {"isOutlinkReady", "hasTaxonData"} -> FALSE
      [] k = "recordCount" -> 0
      [] OTHER -> "N/A"

OnlyIdRecordAccepted ==
    /\ net.has /\ ~Failed(net.v)
    /\ Len(net.v.body) = 1
    /\ DOMAIN net.v.body[1] = {"id"}
    /\ result.status = "returned"
    /\ result.value[1].uuid = "N/A"
    /\ result.value[1].record_count = 0
    /\ ~result.value[1].has_taxon_data

\* C21: a command that reaches its export with an output path ending in one
\* of the formats its error lists as available (.json, .json.gz, .json.xz
\* and, for data-sources, .csv, .tsv, .ssv, plain or followed by .gz or .xz)
\* writes the file and does not raise UnsupportedOutputFormatError.
ListedFormatsAreAccepted ==
    (/\ net.has /\ net.v.kind = "cli" /\ net.v.fetched
     /\ Supported(net.v.command, net.v.output))
    => /\ result.v.status = "written"
       /\ \E f \in files : f.path = net.v.output

\* the sources whose flags are among the positions S
FlaggedSources(S) == {RegisteredFlags(catalog)[i].source : i \in S}

\* C22: verify run with any set of the registered --include flags passes
\* names that all resolve: it does not end in UnknownDataSourceError and
\* selects exactly the sources of the flags that were set (none when no
\* flag is set).
RegisteredFlagsResolve ==
    (result.has /\ result.v.kind = "flags") =>
        /\ result.v.status = "ok"
        /\ selected = FlaggedSources(result.v.set)

====
